---- MODULE Spec2Model ----
(***************************************************************************)
(* taina-backend: a Slack webhook bridge.  Two HTTP handlers verify an     *)
(* inbound request, acknowledge it, and start a goroutine that routes the  *)
(* command, asks the news source for the top stories, renders a Block Kit  *)
(* message and posts it to the request's response URL.                     *)
(*                                                                         *)
(* Strings the code inspects character by character (command text,        *)
(* section) are sequences of one-character strings; strings it only        *)
(* compares or copies (tokens, titles, URLs) are TLA+ strings.             *)
(***************************************************************************)
EXTENDS Integers, Sequences, FiniteSets, TLC

(***************************************************************************)
(* Bounds of the model.                                                    *)
(***************************************************************************)
\* number of inbound requests the server receives in one behaviour
MaxRequests == 2
\* longest list the upstream provider holds for a section
MaxFeed == 4
\* longest remainder following the first word of a command text
MaxRest == 3

(***************************************************************************)
(* Program constants.                                                      *)
(***************************************************************************)
StatusOK == 200
StatusBadRequest == 400
StatusUnauthorized == 401
StatusInternalServerError == 500
\* handleTopRequest asks for the top 3 stories
TopN == 3
\* processCommand slices the text at params[7:], the length of "stories"
PrefixLen == 7

\* Bot.slackVerificationToken, read once from the environment by initConfig
slackVerificationToken == "secret"

ErrInvalidSection == "invalid section"
NyttopErrInvalidSection == "nyttop: invalid section"
ErrUpstream == "nyttop: unexpected status 429"

ErrMessageGeneric == "Oops, something went wrong on our side. Try again later!"
\* (the source wraps "/news help" in backquotes, which a TLA+ string cannot hold)
ErrMessageInvalidSection == "That is not a valid news section! Try requesting /news help to learn how to use this app!"

ResponseTypeEphemeral == "ephemeral"

(***************************************************************************)
(* package strings                                                         *)
(***************************************************************************)
Min(a, b) == IF a <= b THEN a ELSE b

UpperToLower ==
    ("A" :> "a") @@ ("E" :> "e") @@ ("I" :> "i") @@ ("O" :> "o") @@
    ("R" :> "r") @@ ("S" :> "s") @@ ("T" :> "t")

\* strings.ToLower
ToLower(s) ==
    [i \in 1..Len(s) |-> IF s[i] \in DOMAIN UpperToLower THEN UpperToLower[s[i]] ELSE s[i]]

\* strings.HasPrefix
HasPrefix(s, prefix) ==
    Len(s) >= Len(prefix) /\ SubSeq(s, 1, Len(prefix)) = prefix

\* strings.Trim(s, cutset): s without the leading and trailing characters of cutset
Trim(s, cutset) ==
    LET keep == {i \in 1..Len(s) : s[i] \notin cutset}
    IN  IF keep = {} THEN <<>>
        ELSE LET lo == CHOOSE i \in keep : \A j \in keep : i <= j
                 hi == CHOOSE i \in keep : \A j \in keep : i >= j
             IN  SubSeq(s, lo, hi)

Stories == <<"s", "t", "o", "r", "i", "e", "s">>
Home == <<"h", "o", "m", "e">>
Arts == <<"a", "r", "t", "s">>
Politics == <<"p", "o", "l", "i", "t", "i", "c", "s">>
NewsCommand == "/news"

(***************************************************************************)
(* Command routing: processCommand and the head of handleTopRequest.       *)
(***************************************************************************)
\* processCommand slicing one character early, at params[6:]
processCommandShortSlice(params) ==
    IF HasPrefix(params, Stories)
    THEN [route |-> "handleTopRequest", params |-> SubSeq(params, PrefixLen, Len(params))]
    ELSE [route |-> "handleHelpRequest", params |-> <<>>]

\* processCommand: which handler the goroutine calls, and with which params
processCommand(params) ==
    IF HasPrefix(params, Stories)
    THEN [route |-> "handleTopRequest", params |-> SubSeq(params, PrefixLen + 1, Len(params))]
    ELSE [route |-> "handleHelpRequest", params |-> <<>>]

\* the cutset of the strings.Trim call in handleTopRequest
TrimCutset == {" "}

\* handleTopRequest, lines 72-76: the section handed to NewsSource.TopStories
TopRequestSection(params) ==
    LET trimmed == Trim(params, TrimCutset)
    IN  IF Len(trimmed) = 0 THEN Home ELSE trimmed

(***************************************************************************)
(* The news gateway.  The nyttop client is a library outside this          *)
(* repository: the provider holds an ordered list per section and          *)
(* TopNStories hands back its first topN entries, or an error.             *)
(***************************************************************************)
Nil == "nil"

MonthName ==
    (1 :> "January") @@ (7 :> "July") @@ (12 :> "December")

\* time.Time.Format("January 02, 2006"): month name, two-digit day, year
FormatDate(t) ==
    <<MonthName[t.month], <<t.day \div 10, t.day % 10>>, t.year>>

\* the items the provider can hold: two complete ones, one without a title,
\* one without a link
ItemA ==
    [Title |-> "t1", Abstract |-> "a1", ShortURL |-> "u1",
     PublishedAt |-> [year |-> 2021, month |-> 1, day |-> 5]]
ItemB ==
    [Title |-> "t2", Abstract |-> "", ShortURL |-> "u2",
     PublishedAt |-> [year |-> 2020, month |-> 12, day |-> 31]]
ItemNoTitle ==
    [Title |-> "", Abstract |-> "a3", ShortURL |-> "u3",
     PublishedAt |-> [year |-> 2021, month |-> 7, day |-> 14]]
ItemNoLink ==
    [Title |-> "t4", Abstract |-> "a4", ShortURL |-> "",
     PublishedAt |-> [year |-> 2021, month |-> 7, day |-> 14]]

UpstreamItems == {ItemA, ItemB, ItemNoTitle, ItemNoLink}

SeqsUpTo(S, n) == UNION {[1..k -> S] : k \in 0..n}

Feeds == SeqsUpTo(UpstreamItems, MaxFeed)

\* nyttop.Client.TopNStories on a provider list: its first topN entries
TopNStories(feed, topN) == SubSeq(feed, 1, Min(topN, Len(feed)))

\* what client.TopNStories can return for a call: a list or one of its errors
UpstreamOutcomes(feeds, topN) ==
    {[articles |-> TopNStories(f, topN), err |-> Nil] : f \in feeds}
        \cup {[articles |-> <<>>, err |-> e] : e \in {NyttopErrInvalidSection, ErrUpstream}}

\* news.go: the Article built from one upstream item
NewArticle(a) ==
    [Title |-> a.Title, Abstract |-> a.Abstract, URL |-> a.ShortURL,
     PublishedAt |-> FormatDate(a.PublishedAt)]

\* the loop building its result back to front
RECURSIVE ValidArticlesReversed(_)
ValidArticlesReversed(articles) ==
    IF articles = <<>> THEN <<>>
    ELSE LET a == Head(articles)
         IN  IF a.Title = "" \/ a.ShortURL = ""
             THEN ValidArticlesReversed(Tail(articles))
             ELSE ValidArticlesReversed(Tail(articles)) \o <<NewArticle(a)>>

\* news.go, the loop of TopStories: items without a title or a link are skipped
RECURSIVE ValidArticles(_)
ValidArticles(articles) ==
    IF articles = <<>> THEN <<>>
    ELSE LET a == Head(articles)
         IN  IF a.Title = "" \/ a.ShortURL = ""
             THEN ValidArticles(Tail(articles))
             ELSE <<NewArticle(a)>> \o ValidArticles(Tail(articles))

\* news.go, NYTimes.TopStories, given what client.TopNStories returned
NYTimesTopStories(up) ==
    IF up.err # Nil
    THEN IF up.err = NyttopErrInvalidSection
         THEN [articles |-> <<>>, err |-> ErrInvalidSection]
         ELSE [articles |-> <<>>, err |-> up.err]
    ELSE [articles |-> ValidArticles(up.articles), err |-> Nil]

\* the second NYTimes.TopStories of the repository (the copy that follows the
\* bot's code): every upstream item becomes an Article, none is skipped
UncheckedArticle(a) ==
    [Title |-> a.Title, Abstract |-> a.Abstract, URL |-> a.ShortURL]

UncheckedTopStories(up) ==
    IF up.err # Nil
    THEN IF up.err = NyttopErrInvalidSection
         THEN [articles |-> <<>>, err |-> ErrInvalidSection]
         ELSE [articles |-> <<>>, err |-> up.err]
    ELSE [articles |-> [i \in 1..Len(up.articles) |-> UncheckedArticle(up.articles[i])],
          err |-> Nil]

\* the NewsSource implementations the repository holds
NewsSources == {"NYTimes", "NYTimesUnchecked"}

\* b.newsSource.TopStories: the call through the NewsSource interface
TopStories(source, up) ==
    IF source = "NYTimes" THEN NYTimesTopStories(up) ELSE UncheckedTopStories(up)

(***************************************************************************)
(* Rendering and delivery.                                                 *)
(***************************************************************************)
HeaderBlock(text) ==
    [Type |-> "header", Text |-> [Type |-> "plain_text", Text |-> text]]

DividerBlock == [Type |-> "divider"]

\* fmt.Sprintf("<%s|%s>\n%s", a.URL, a.Title, a.Abstract)
ArticleText(a) == <<"<", a.URL, "|", a.Title, ">\n", a.Abstract>>

ArticleBlock(a) ==
    [Type |-> "section", Text |-> [Type |-> "mrkdwn", Text |-> ArticleText(a)]]

\* the loop leaving out the divider after the last article
RECURSIVE ArticleBlocksNoLastDivider(_)
ArticleBlocksNoLastDivider(articles) ==
    IF articles = <<>> THEN <<>>
    ELSE IF Len(articles) = 1 THEN <<ArticleBlock(Head(articles))>>
    ELSE <<ArticleBlock(Head(articles)), DividerBlock>>
             \o ArticleBlocksNoLastDivider(Tail(articles))

\* handleTopRequest, lines 109-122: a section block and a divider per article
RECURSIVE ArticleBlocks(_)
ArticleBlocks(articles) ==
    IF articles = <<>> THEN <<>>
    ELSE <<ArticleBlock(Head(articles)), DividerBlock>> \o ArticleBlocks(Tail(articles))

\* handleTopRequest, lines 100-122: the block set of a top-stories message
TopStoriesBlocks(articles) ==
    <<HeaderBlock("Here are the top stories")>> \o ArticleBlocks(articles)

\* the two texts the wrong way round
ErrMessageSwapped(err) ==
    IF err = "invalid section"
    THEN "Oops, something went wrong on our side. Try again later!"
    ELSE "That is not a valid news section! Try requesting /news help to learn how to use this app!"

\* handleTopRequest, lines 83-86: the text sent when TopStories failed
ErrMessage(err) ==
    IF err = ErrInvalidSection THEN ErrMessageInvalidSection ELSE ErrMessageGeneric

OptionBlock(text, value) ==
    [Text |-> [Type |-> "plain_text", Text |-> text], Value |-> value]

\* the help message with the first two options the other way round
HelpBlocksReordered ==
    << HeaderBlock("How to use"),
       DividerBlock,
       [Type |-> "section",
        Text |-> [Type |-> "mrkdwn", Text |-> "Choose a news section"],
        Accessory |-> [Type |-> "static_select",
                       Options |-> << OptionBlock("Arts", Arts),
                                      OptionBlock("General", Home),
                                      OptionBlock("Politics", Politics) >>]] >>

\* handleHelpRequest, lines 137-184: the block set of the help message
HelpBlocks ==
    << HeaderBlock("How to use"),
       DividerBlock,
       [Type |-> "section",
        Text |-> [Type |-> "mrkdwn", Text |-> "Choose a news section"],
        Accessory |-> [Type |-> "static_select",
                       Options |-> << OptionBlock("General", Home),
                                      OptionBlock("Arts", Arts),
                                      OptionBlock("Politics", Politics) >>]] >>

\* the arguments of one slackClient.PostMessage call
PostMessage(channelID, responseURL, responseType, blocks, text) ==
    [channelID |-> channelID, responseURL |-> responseURL,
     responseType |-> responseType, blocks |-> blocks, text |-> text]

\* handleTopRequest, lines 80-129: the message posted for a TopStories result
TopRequestMessage(channelID, responseURL, res) ==
    IF res.err # Nil
    THEN PostMessage(channelID, responseURL, ResponseTypeEphemeral, <<>>, ErrMessage(res.err))
    ELSE PostMessage(channelID, responseURL, ResponseTypeEphemeral,
                     TopStoriesBlocks(res.articles), "")

\* handleHelpRequest, lines 186-189
HelpRequestMessage(channelID, responseURL) ==
    PostMessage(channelID, responseURL, ResponseTypeEphemeral, HelpBlocks, "")

(***************************************************************************)
(* Inbound requests.                                                       *)
(***************************************************************************)
Tokens == {slackVerificationToken, "wrong"}
Commands == {NewsCommand, "/weather"}
ChannelIDs == {"C1"}

\* Slack issues one response URL per invocation
ResponseURL(n) == <<"https://hooks.slack.com/commands", n>>

\* command texts sent to the running server: "", "stories ", "stories Arts"
ServerTexts ==
    { <<>>,
      Stories \o <<" ">>,
      <<"s", "t", "o", "r", "i", "e", "s", " ", "A", "r", "t", "s">> }

\* values a selected option can carry: "" and "Arts"
SelectedValues == { <<>>, <<"A", "r", "t", "s">> }

\* provider lists the running server meets
ServerFeeds == { <<>>, <<ItemA, ItemNoTitle, ItemB, ItemNoLink>> }

\* POST /receive: a body that does not parse still carries the token its
\* sender put in it; nothing else of it is ever read
SlashRequests(n) ==
    { [endpoint |-> "/receive", wellFormed |-> FALSE, token |-> t,
       command |-> NewsCommand, text |-> <<>>, actions |-> <<>>,
       channelID |-> c, responseURL |-> ResponseURL(n)]
        : t \in Tokens, c \in ChannelIDs }
    \cup
    { r \in { [endpoint |-> "/receive", wellFormed |-> TRUE, token |-> t,
                command |-> cmd, text |-> txt, actions |-> <<>>,
                channelID |-> c, responseURL |-> ResponseURL(n)]
                 : t \in Tokens, cmd \in Commands, txt \in ServerTexts,
                   c \in ChannelIDs } :
          \* s.Text is read on line 55 only: the texts vary where it is reached
          \/ r.token = slackVerificationToken /\ r.command = NewsCommand
          \/ r.text = <<>> }

\* POST /receive/help: the payload field, deserialized or not; actions holds
\* the selected value of each block action
HelpRequests(n) ==
    { [endpoint |-> "/receive/help", wellFormed |-> FALSE, token |-> t,
       command |-> "", text |-> <<>>, actions |-> <<>>,
       channelID |-> c, responseURL |-> ResponseURL(n)]
        : t \in Tokens, c \in ChannelIDs }
    \cup
    { r \in { [endpoint |-> "/receive/help", wellFormed |-> TRUE, token |-> t,
                command |-> "", text |-> <<>>, actions |-> acts,
                channelID |-> c, responseURL |-> ResponseURL(n)]
                 : t \in Tokens, acts \in SeqsUpTo(SelectedValues, 2),
                   c \in ChannelIDs } :
          \* the selected value is read on line 236 only: the values vary
          \* where it is reached, the number of actions everywhere
          \/ r.token = slackVerificationToken /\ Len(r.actions) = 1
          \/ \A k \in 1..Len(r.actions) : r.actions[k] = <<>> }

(***************************************************************************)
(* The handlers' checks.                                                   *)
(***************************************************************************)
\* ValidateToken accepting every token
ValidateTokenAny(token, verificationToken) == TRUE

\* slack.SlashCommand.ValidateToken
ValidateToken(token, verificationToken) == token = verificationToken

\* HandleSlashCommand checking the command name before the token
SlashCommandStatusCommandFirst(req) ==
    IF ~req.wellFormed THEN StatusInternalServerError
    ELSE IF req.command # NewsCommand THEN StatusBadRequest
    ELSE IF req.token # slackVerificationToken THEN StatusUnauthorized
    ELSE StatusOK

\* HandleSlashCommand, lines 31-54: the status written for a request
SlashCommandStatus(req) ==
    IF ~req.wellFormed THEN StatusInternalServerError
    ELSE IF ~ValidateToken(req.token, slackVerificationToken) THEN StatusUnauthorized
    ELSE IF req.command # NewsCommand THEN StatusBadRequest
    ELSE StatusOK

\* the action count checked as "at least one"
AtLeastOneAction(blockActions) == Len(blockActions) >= 1

\* HandleHelpInteraction, line 225: exactly one action
OneAction(blockActions) == Len(blockActions) = 1

\* HandleHelpInteraction counting the actions before it checks the token
HelpInteractionStatusCountFirst(req) ==
    IF ~req.wellFormed THEN StatusBadRequest
    ELSE IF ~OneAction(req.actions) THEN StatusBadRequest
    ELSE IF req.token # slackVerificationToken THEN StatusUnauthorized
    ELSE StatusOK

\* HandleHelpInteraction, lines 198-233: the status written for a request
HelpInteractionStatus(req) ==
    IF ~req.wellFormed THEN StatusBadRequest
    ELSE IF req.token # slackVerificationToken THEN StatusUnauthorized
    ELSE IF ~OneAction(req.actions) THEN StatusBadRequest
    ELSE StatusOK

\* a handler that starts the goroutine whatever status it writes
HandlerStepsAlwaysGo(st, fn) ==
    << [ev |-> "WriteHeader", by |-> "handler", status |-> st],
       [ev |-> "go", by |-> "handler", fn |-> fn] >>

\* a handler that starts the goroutine before it writes the status
HandlerStepsGoFirst(st, fn) ==
    IF st = StatusOK
    THEN << [ev |-> "go", by |-> "handler", fn |-> fn],
            [ev |-> "WriteHeader", by |-> "handler", status |-> st] >>
    ELSE << [ev |-> "WriteHeader", by |-> "handler", status |-> st] >>

\* what a handler does, in order, once the status is decided: WriteHeader,
\* and for StatusOK the go statement that follows it
HandlerSteps(st, fn) ==
    IF st = StatusOK
    THEN << [ev |-> "WriteHeader", by |-> "handler", status |-> st],
            [ev |-> "go", by |-> "handler", fn |-> fn] >>
    ELSE << [ev |-> "WriteHeader", by |-> "handler", status |-> st] >>

(***************************************************************************)
(* State.                                                                  *)
(***************************************************************************)
VARIABLES
    newsSource,   \* Bot.newsSource: the implementation NewBot was given
    requests,     \* the requests received so far, in order of arrival
    status,       \* status[i]: the status code written for requests[i]
    tasks,        \* tasks[i]: the goroutine started for requests[i], if any
    log,          \* log[i]: the calls made for requests[i], in order
    proc,         \* the process: "serving" until main returns, then "exited"
    call          \* one call of a pure function: its arguments and its result

vars == <<newsSource, requests, status, tasks, log, proc, call>>

NoTask ==
    [pc |-> "none", channelID |-> "", responseURL |-> <<>>, params |-> <<>>,
     result |-> Nil, posted |-> Nil, postErr |-> Nil]

\* goroutines that take the response URL from one place they all share,
\* which holds the first request's
NewTaskSharedURL(fn, channelID, responseURL, params) ==
    [pc |-> fn, channelID |-> channelID, responseURL |-> ResponseURL(1),
     params |-> params, result |-> Nil, posted |-> Nil, postErr |-> Nil]

\* the goroutine of a go statement, about to run fn(channelID, responseURL, params)
NewTask(fn, channelID, responseURL, params) ==
    [pc |-> fn, channelID |-> channelID, responseURL |-> responseURL,
     params |-> params, result |-> Nil, posted |-> Nil, postErr |-> Nil]

NoCall == [fn |-> "none", args |-> Nil, done |-> FALSE, ret |-> Nil]

IDs == 1..Len(requests)

Init ==
    /\ newsSource \in NewsSources
    /\ requests = <<>>
    /\ status = <<>>
    /\ tasks = <<>>
    /\ log = <<>>
    /\ proc = "serving"
    /\ call = NoCall

(***************************************************************************)
(* The handlers.                                                           *)
(***************************************************************************)
\* HandleSlashCommand, lines 30-56
HandleSlashCommand ==
    /\ proc = "serving"
    /\ Len(requests) < MaxRequests
    /\ \E req \in SlashRequests(Len(requests) + 1) :
         LET st == SlashCommandStatus(req)
         IN  /\ requests' = Append(requests, req)
             /\ status' = Append(status, st)
             /\ log' = Append(log, HandlerSteps(st, "processCommand"))
             /\ tasks' = Append(tasks,
                    IF st = StatusOK
                    THEN NewTask("processCommand", req.channelID, req.responseURL,
                                 ToLower(req.text))
                    ELSE NoTask)
    /\ UNCHANGED <<newsSource, proc, call>>

\* HandleHelpInteraction, lines 197-237
HandleHelpInteraction ==
    /\ proc = "serving"
    /\ Len(requests) < MaxRequests
    /\ \E req \in HelpRequests(Len(requests) + 1) :
         LET st == HelpInteractionStatus(req)
         IN  /\ requests' = Append(requests, req)
             /\ status' = Append(status, st)
             /\ log' = Append(log, HandlerSteps(st, "handleTopRequest"))
             /\ tasks' = Append(tasks,
                    IF st = StatusOK
                    THEN NewTask("handleTopRequest", req.channelID, req.responseURL,
                                 req.actions[1])
                    ELSE NoTask)
    /\ UNCHANGED <<newsSource, proc, call>>

(***************************************************************************)
(* The goroutines.                                                         *)
(***************************************************************************)
\* the help interaction's goroutine asking for one fixed section, whatever
\* value was selected
TaskRouteFixedSection(t) ==
    IF t.pc = "processCommand" THEN processCommand(t.params)
    ELSE [route |-> "handleTopRequest", params |-> Politics]

\* the handler a goroutine runs and its params: processCommand picks one,
\* the help interaction starts handleTopRequest directly
TaskRoute(t) ==
    IF t.pc = "processCommand" THEN processCommand(t.params)
    ELSE [route |-> "handleTopRequest", params |-> t.params]

PostErrors == {Nil, "slack: post failed"}

\* handleTopRequest, lines 71-79: trim, default, and the TopStories call,
\* which returns what the news source makes of the provider's answer
CallTopStories(i) ==
    /\ proc = "serving"
    /\ tasks[i].pc \in {"processCommand", "handleTopRequest"}
    /\ TaskRoute(tasks[i]).route = "handleTopRequest"
    /\ LET section == TopRequestSection(TaskRoute(tasks[i]).params)
       IN  \E up \in UpstreamOutcomes(ServerFeeds, TopN) :
             /\ tasks' = [tasks EXCEPT ![i].pc = "fetched",
                                       ![i].result = TopStories(newsSource, up)]
             /\ log' = [log EXCEPT ![i] = Append(@,
                          [ev |-> "TopStories", by |-> "goroutine",
                           section |-> section, topN |-> TopN])]
    /\ UNCHANGED <<newsSource, requests, status, proc, call>>

\* handleTopRequest posting again after a PostMessage that failed
PostTopStoriesRetry(i) ==
    /\ proc = "serving"
    /\ tasks[i].pc = "fetched"
    /\ LET msg == TopRequestMessage(tasks[i].channelID, tasks[i].responseURL,
                                    tasks[i].result)
       IN  \E e \in PostErrors :
             /\ tasks' = [tasks EXCEPT ![i].pc = IF e = Nil THEN "done" ELSE "fetched",
                                       ![i].posted = msg, ![i].postErr = e]
             /\ log' = [log EXCEPT ![i] = Append(@,
                          [ev |-> "PostMessage", by |-> "goroutine", msg |-> msg])]
    /\ UNCHANGED <<newsSource, requests, status, proc, call>>

\* handleTopRequest, lines 80-131: one PostMessage, its error only logged
PostTopStories(i) ==
    /\ proc = "serving"
    /\ tasks[i].pc = "fetched"
    /\ LET msg == TopRequestMessage(tasks[i].channelID, tasks[i].responseURL,
                                    tasks[i].result)
       IN  \E e \in PostErrors :
             /\ tasks' = [tasks EXCEPT ![i].pc = "done", ![i].posted = msg,
                                       ![i].postErr = e]
             /\ log' = [log EXCEPT ![i] = Append(@,
                          [ev |-> "PostMessage", by |-> "goroutine", msg |-> msg])]
    /\ UNCHANGED <<newsSource, requests, status, proc, call>>

\* processCommand's default case and handleHelpRequest, lines 65-67, 136-192
PostHelp(i) ==
    /\ proc = "serving"
    /\ tasks[i].pc = "processCommand"
    /\ TaskRoute(tasks[i]).route = "handleHelpRequest"
    /\ LET msg == HelpRequestMessage(tasks[i].channelID, tasks[i].responseURL)
       IN  \E e \in PostErrors :
             /\ tasks' = [tasks EXCEPT ![i].pc = "done", ![i].posted = msg,
                                       ![i].postErr = e]
             /\ log' = [log EXCEPT ![i] = Append(@,
                          [ev |-> "PostMessage", by |-> "goroutine", msg |-> msg])]
    /\ UNCHANGED <<newsSource, requests, status, proc, call>>

\* main, lines 54-69: a SIGINT or SIGTERM arrives, server.Shutdown waits for
\* the handlers that are running (none is, a handler being one step here)
\* and main returns: the process ends, and with it every goroutine that has
\* not returned yet
Shutdown ==
    /\ proc = "serving"
    /\ proc' = "exited"
    /\ UNCHANGED <<newsSource, requests, status, tasks, log, call>>

\* the steps of the handlers and of the goroutines
Serve ==
    \/ HandleSlashCommand
    \/ HandleHelpInteraction
    \/ \E i \in IDs : CallTopStories(i)
    \/ \E i \in IDs : PostTopStories(i)
    \/ \E i \in IDs : PostHelp(i)

Next ==
    \/ Serve
    \/ Shutdown

Spec == Init /\ [][Next]_vars

\* The server while no signal arrives.  Shutdown changes proc alone and
\* disables every other step, so a state of Spec is a state of SpecServing
\* up to proc: what holds of requests, status, tasks and log in every state
\* of SpecServing holds in every state of Spec.
SpecServing == Init /\ [][Serve]_vars

(***************************************************************************)
(* Command routing on its own: one slash command text taken through        *)
(* strings.ToLower, processCommand and the head of handleTopRequest.       *)
(***************************************************************************)
FirstWords ==
    { <<>>,
      Stories,
      <<"S", "t", "o", "r", "i", "e", "s">>,
      <<"S", "T", "O", "R", "I", "E", "S">>,
      <<"s", "t", "o", "r", "i", "e">>,
      <<" ">> \o Stories,
      <<"h", "e", "l", "p">> }

RestChars == {" ", "\t", "\n", "a", "A"}

Texts == {w \o r : w \in FirstWords, r \in SeqsUpTo(RestChars, MaxRest)}

\* HandleSlashCommand line 55, processCommand, handleTopRequest lines 72-79:
\* the route taken for a command text and the section that reaches TopStories
CommandResult(text) ==
    LET r == processCommand(ToLower(text))
    IN  IF r.route = "handleTopRequest"
        THEN [route |-> r.route, params |-> r.params,
              section |-> TopRequestSection(r.params), callsTopStories |-> TRUE]
        ELSE [route |-> r.route, params |-> r.params,
              section |-> <<>>, callsTopStories |-> FALSE]

InitRoute ==
    /\ newsSource \in NewsSources
    /\ requests = <<>> /\ status = <<>> /\ tasks = <<>> /\ log = <<>>
    /\ proc = "serving"
    /\ call \in {[fn |-> "processCommand", args |-> t, done |-> FALSE, ret |-> Nil] : t \in Texts}

RunProcessCommand ==
    /\ call.fn = "processCommand"
    /\ ~call.done
    /\ call' = [call EXCEPT !.done = TRUE, !.ret = CommandResult(call.args)]
    /\ UNCHANGED <<newsSource, requests, status, tasks, log, proc>>

SpecRoute == InitRoute /\ [][RunProcessCommand]_vars

(***************************************************************************)
(* The news gateway on its own: one TopStories(section, topN) call against *)
(* a provider that holds a list, or fails.                                 *)
(***************************************************************************)
ProviderStates ==
    {[feed |-> f, err |-> Nil, topN |-> n] : f \in Feeds, n \in 0..TopN}
        \cup {[feed |-> <<>>, err |-> e, topN |-> n]
                : e \in {NyttopErrInvalidSection, ErrUpstream}, n \in 0..TopN}

\* client.TopNStories against the provider state
ProviderAnswer(p) ==
    IF p.err # Nil THEN [articles |-> <<>>, err |-> p.err]
    ELSE [articles |-> TopNStories(p.feed, p.topN), err |-> Nil]

InitNews ==
    /\ newsSource \in NewsSources
    /\ requests = <<>> /\ status = <<>> /\ tasks = <<>> /\ log = <<>>
    /\ proc = "serving"
    /\ call \in {[fn |-> "TopStories", args |-> p, done |-> FALSE, ret |-> Nil] : p \in ProviderStates}

RunTopStories ==
    /\ call.fn = "TopStories"
    /\ ~call.done
    /\ call' = [call EXCEPT !.done = TRUE,
                             !.ret = [up |-> ProviderAnswer(call.args),
                                      res |-> TopStories(newsSource, ProviderAnswer(call.args))]]
    /\ UNCHANGED <<newsSource, requests, status, tasks, log, proc>>

SpecNews == InitNews /\ [][RunTopStories]_vars

(***************************************************************************)
(* Vocabulary of the properties.                                           *)
(***************************************************************************)
Events(i, kind) == {k \in 1..Len(log[i]) : log[i][k].ev = kind}

\* the calls that reach outside the process for request i
Outbound(i) == Events(i, "TopStories") \cup Events(i, "PostMessage")

Slash(i) == requests[i].endpoint = "/receive"
Help(i) == requests[i].endpoint = "/receive/help"

\* request i was acknowledged with 200 before position k of its log
AckedBefore(i, k) ==
    \E j \in 1..(k - 1) :
        log[i][j].ev = "WriteHeader" /\ log[i][j].status = StatusOK

\* no goroutine, no TopStories call and no PostMessage exists for request i
NothingStarted(i) ==
    /\ tasks[i].pc = "none"
    /\ Events(i, "go") = {}
    /\ Outbound(i) = {}

(***************************************************************************)
(* C1.  As stated: on both endpoints every request whose token differs     *)
(* from the configured secret is answered 401, and no news fetch and no    *)
(* message delivery is ever performed for it.                              *)
(***************************************************************************)
C1_WrongTokenAlways401 ==
    \A i \in IDs :
        requests[i].token # slackVerificationToken
            => status[i] = StatusUnauthorized /\ NothingStarted(i)

\* C1, amended: a request whose token differs from the secret is never
\* acknowledged and never gets a goroutine, a fetch or a delivery; it is
\* answered 401 when its body parses (a body that does not parse is answered
\* by the parse check, before the token is looked at).
C1_WrongTokenRejected ==
    \A i \in IDs :
        requests[i].token # slackVerificationToken
            => /\ status[i] # StatusOK
               /\ requests[i].wellFormed => status[i] = StatusUnauthorized
               /\ NothingStarted(i)

C1_Witness ==
    \E i, j \in IDs :
        /\ Slash(i) /\ Help(j)
        /\ requests[i].wellFormed /\ requests[j].wellFormed
        /\ requests[i].token # slackVerificationToken
        /\ requests[j].token # slackVerificationToken
        /\ status[i] = StatusUnauthorized /\ status[j] = StatusUnauthorized

(***************************************************************************)
(* C2.  For every accepted request the 200 is written before the goroutine *)
(* is started, so every TopStories call and every PostMessage of a request *)
(* comes after that request's acknowledgment, and none is made by the      *)
(* handler itself.                                                         *)
(***************************************************************************)
C2_AckBeforeTask ==
    \A i \in IDs :
        /\ \A k \in Events(i, "go") : AckedBefore(i, k)
        /\ \A k \in Outbound(i) : AckedBefore(i, k) /\ log[i][k].by = "goroutine"
        /\ tasks[i].pc # "none" => Events(i, "go") # {}

C2_Witness ==
    \E i, j \in IDs :
        /\ Slash(i) /\ Help(j)
        /\ Events(i, "TopStories") # {} /\ Events(i, "PostMessage") # {}
        /\ Events(j, "TopStories") # {} /\ Events(j, "PostMessage") # {}

(***************************************************************************)
(* C3.  As stated: an interactive callback whose payload carries zero or   *)
(* two or more block actions is answered 400 and no goroutine is started.  *)
(***************************************************************************)
C3_ActionCountAlways400 ==
    \A i \in IDs :
        Help(i) /\ requests[i].wellFormed /\ Len(requests[i].actions) # 1
            => status[i] = StatusBadRequest /\ NothingStarted(i)

\* C3, amended: such a callback is rejected and no goroutine is started for
\* it; the status is 400 when its token equals the secret and 401 otherwise
\* (the token is checked before the actions are counted).
C3_ActionCountRejected ==
    \A i \in IDs :
        Help(i) /\ requests[i].wellFormed /\ Len(requests[i].actions) # 1
            => /\ status[i] = IF requests[i].token = slackVerificationToken
                              THEN StatusBadRequest ELSE StatusUnauthorized
               /\ NothingStarted(i)

C3_Witness ==
    \E i, j \in IDs :
        /\ Help(i) /\ Help(j)
        /\ requests[i].wellFormed /\ requests[j].wellFormed
        /\ requests[i].token = slackVerificationToken
        /\ requests[j].token = slackVerificationToken
        /\ Len(requests[i].actions) = 0 /\ Len(requests[j].actions) = 2
        /\ status[i] = StatusBadRequest /\ status[j] = StatusBadRequest

(***************************************************************************)
(* C4.  POST /receive answers a malformed body with 500, a bad token with  *)
(* 401, another command name than "/news" with 400 and otherwise 200; the  *)
(* checks run in that order and the first that fails decides the status.   *)
(***************************************************************************)
C4_SlashStatusOrder ==
    \A i \in IDs :
        Slash(i) =>
            LET r == requests[i]
                tokenOK == r.token = slackVerificationToken
            IN  /\ ~r.wellFormed => status[i] = StatusInternalServerError
                /\ r.wellFormed /\ ~tokenOK => status[i] = StatusUnauthorized
                /\ r.wellFormed /\ tokenOK /\ r.command # "/news"
                       => status[i] = StatusBadRequest
                /\ r.wellFormed /\ tokenOK /\ r.command = "/news"
                       => status[i] = StatusOK

\* two checks fail at once and the earlier one decides
C4_Witness ==
    \E i, j \in IDs :
        /\ Slash(i) /\ Slash(j)
        /\ ~requests[i].wellFormed /\ requests[i].token # slackVerificationToken
        /\ status[i] = StatusInternalServerError
        /\ requests[j].wellFormed /\ requests[j].token # slackVerificationToken
        /\ requests[j].command # "/news"
        /\ status[j] = StatusUnauthorized

\* the whitespace characters: space, tab, newline
Whitespace == {" ", "\t", "\n"}

\* the text that follows the prefix "stories" in a lowercased command text
Remainder(text) == SubSeq(ToLower(text), Len(Stories) + 1, Len(text))

(***************************************************************************)
(* C5.  Every command text that, lowercased, starts with "stories" takes   *)
(* the top-stories route, and the section is the remainder after the       *)
(* prefix with the surrounding whitespace trimmed; every other text takes  *)
(* the help route and never calls the news gateway.                        *)
(***************************************************************************)
C5_Routing ==
    call.fn = "processCommand" /\ call.done =>
        IF HasPrefix(ToLower(call.args), Stories)
        THEN /\ call.ret.route = "handleTopRequest"
             /\ Trim(Remainder(call.args), Whitespace) # <<>>
                    => call.ret.section = Trim(Remainder(call.args), Whitespace)
        ELSE /\ call.ret.route = "handleHelpRequest"
             /\ ~call.ret.callsTopStories

(***************************************************************************)
(* C6.  Whenever the text after the prefix is empty or made of whitespace  *)
(* only (spaces, tabs, newlines), the section handed to TopStories is      *)
(* "home".                                                                 *)
(***************************************************************************)
C6_BlankSectionIsHome ==
    call.fn = "processCommand" /\ call.done
        /\ HasPrefix(ToLower(call.args), Stories)
        /\ (\A k \in 1..Len(Remainder(call.args)) : Remainder(call.args)[k] \in Whitespace)
        => call.ret.section = Home

\* request i got as far as its TopStories call
Fetched(i) == Events(i, "TopStories") # {}

\* the goroutine of request i has returned after a TopStories call
TopRequestDone(i) == Fetched(i) /\ tasks[i].pc = "done"

\* the messages posted for request i
Posted(i) == {log[i][k].msg : k \in Events(i, "PostMessage")}

(***************************************************************************)
(* C7.  When TopStories fails, the goroutine posts exactly one ephemeral   *)
(* text message and no blocks: the help pointer for ErrInvalidSection, the *)
(* try-again-later text for every other error; the error's own text is     *)
(* not in the message.                                                     *)
(***************************************************************************)
C7_ErrorMessage ==
    \A i \in IDs :
        TopRequestDone(i) /\ tasks[i].result.err # Nil =>
            /\ Cardinality(Events(i, "PostMessage")) = 1
            /\ Posted(i) = {tasks[i].posted}
            /\ tasks[i].posted.blocks = <<>>
            /\ tasks[i].posted.responseType = "ephemeral"
            /\ tasks[i].result.err = ErrInvalidSection
                   => tasks[i].posted.text = ErrMessageInvalidSection
            /\ tasks[i].result.err # ErrInvalidSection
                   => tasks[i].posted.text = ErrMessageGeneric
            /\ tasks[i].posted.text # tasks[i].result.err

C7_Witness ==
    \E i, j \in IDs :
        /\ TopRequestDone(i) /\ tasks[i].result.err = ErrInvalidSection
        /\ TopRequestDone(j) /\ tasks[j].result.err = ErrUpstream

(***************************************************************************)
(* C8.  Every upstream item with an empty title or an empty link is left   *)
(* out of what TopStories returns, so no content block posted has an empty *)
(* title or an empty URL.                                                  *)
(***************************************************************************)
C8_NoEmptyTitleOrLink ==
    \A i \in IDs :
        Fetched(i) =>
            /\ \A k \in 1..Len(tasks[i].result.articles) :
                   /\ tasks[i].result.articles[k].Title # ""
                   /\ tasks[i].result.articles[k].URL # ""
            /\ \A m \in Posted(i) : \A k \in 1..Len(m.blocks) :
                   m.blocks[k].Type = "section"
                       => m.blocks[k].Text.Text[2] # "" /\ m.blocks[k].Text.Text[4] # ""

\* article a is upstream item u, field by field
SameStory(a, u) ==
    a.Title = u.Title /\ a.Abstract = u.Abstract /\ a.URL = u.ShortURL

\* as is what remains of us after leaving some of its items out
RECURSIVE KeptInOrder(_, _)
KeptInOrder(as, us) ==
    IF as = <<>> THEN TRUE
    ELSE IF us = <<>> THEN FALSE
    ELSE IF SameStory(Head(as), Head(us)) THEN KeptInOrder(Tail(as), Tail(us))
    ELSE KeptInOrder(as, Tail(us))

(***************************************************************************)
(* C9.  On success TopStories(section, n) returns the upstream items in    *)
(* their upstream order with some left out, and at most n of them.         *)
(***************************************************************************)
C9_OrderedAndCapped ==
    call.fn = "TopStories" /\ call.done /\ call.ret.res.err = Nil =>
        /\ KeptInOrder(call.ret.res.articles, call.ret.up.articles)
        /\ KeptInOrder(call.ret.res.articles, call.args.feed)
        /\ Len(call.ret.res.articles) <= call.args.topN

\* the provider holds more than n items, one returned item is left out and
\* two are kept
C9_Witness ==
    /\ call.fn = "TopStories" /\ call.done /\ call.ret.res.err = Nil
    /\ Len(call.args.feed) > call.args.topN
    /\ Len(call.ret.res.articles) < Len(call.ret.up.articles)
    /\ Len(call.ret.res.articles) = 2
    /\ call.ret.res.articles[1].Title # call.ret.res.articles[2].Title

(***************************************************************************)
(* C10.  For a fetch that returned k articles the message is one header    *)
(* block followed by k pairs of content block and divider, 2k+1 blocks,    *)
(* the i-th content block built from the i-th article; for k = 0 it is the *)
(* header alone, and it is posted all the same.                            *)
(***************************************************************************)
C10_TopStoriesMessage ==
    \A i \in IDs :
        TopRequestDone(i) /\ tasks[i].result.err = Nil =>
            LET as == tasks[i].result.articles
                bs == tasks[i].posted.blocks
            IN  /\ Posted(i) = {tasks[i].posted}
                /\ Len(bs) = 2 * Len(as) + 1
                /\ bs[1].Type = "header"
                /\ bs[1].Text.Text = "Here are the top stories"
                /\ \A k \in 1..Len(as) :
                       /\ bs[2 * k].Type = "section"
                       /\ bs[2 * k].Text.Text =
                              <<"<", as[k].URL, "|", as[k].Title, ">\n", as[k].Abstract>>
                       /\ bs[2 * k + 1].Type = "divider"

C10_Witness ==
    \E i, j \in IDs :
        /\ TopRequestDone(i) /\ tasks[i].result.err = Nil
        /\ Len(tasks[i].result.articles) = 0 /\ Len(tasks[i].posted.blocks) = 1
        /\ TopRequestDone(j) /\ tasks[j].result.err = Nil
        /\ Len(tasks[j].result.articles) >= 2

\* a goroutine was started for request i
Spawned(i) == tasks[i].pc # "none"

(***************************************************************************)
(* C11.  On every path (top stories, fetch error, help) a goroutine makes  *)
(* one delivery attempt, always ephemeral; when the attempt fails the      *)
(* goroutine ends all the same, with no retry and no further attempt.      *)
(***************************************************************************)
C11_OneDeliveryAttempt ==
    \A i \in IDs :
        /\ Cardinality(Events(i, "PostMessage")) <= 1
        /\ \A k \in Events(i, "PostMessage") :
               /\ log[i][k].msg.responseType = "ephemeral"
               /\ k = Len(log[i])
               /\ tasks[i].pc = "done"
        /\ tasks[i].pc = "done" => Cardinality(Events(i, "PostMessage")) = 1

\* a failed attempt on the fetch-error path and one on the help path
C11_Witness ==
    \E i, j \in IDs :
        /\ TopRequestDone(i) /\ tasks[i].result.err # Nil
        /\ tasks[i].postErr # Nil
        /\ tasks[j].pc = "done" /\ ~Fetched(j)
        /\ tasks[j].postErr # Nil

\* the section named by a text of the form "stories <s>": s
NamedSection(text) == SubSeq(text, Len(Stories) + 2, Len(text))

\* the text is "stories <s>" with a non-empty s
NamesSection(text) ==
    /\ HasPrefix(text, Stories \o <<" ">>)
    /\ Len(NamedSection(text)) > 0

\* s as the code normalises it: lowercased, surrounding spaces trimmed,
\* "home" when nothing is left
Normalised(s) ==
    IF Trim(ToLower(s), {" "}) = <<>> THEN Home ELSE Trim(ToLower(s), {" "})

\* the TopStories call comes once at most, once when the goroutine is done,
\* every PostMessage comes after it and goes to the request's response URL
FetchThenDeliver(i) ==
    /\ Cardinality(Events(i, "TopStories")) <= 1
    /\ tasks[i].pc = "done" => Cardinality(Events(i, "TopStories")) = 1
    /\ \A k \in Events(i, "PostMessage") :
           /\ \E f \in Events(i, "TopStories") : f < k
           /\ log[i][k].msg.responseURL = requests[i].responseURL

(***************************************************************************)
(* C12.  As stated: for an accepted slash command whose text is            *)
(* "stories <s>" with a non-empty s, the goroutine calls TopStories once,  *)
(* with (s, 3), and only after it returned posts the message, to the       *)
(* response URL of that request.                                           *)
(***************************************************************************)
C12_FetchWithSectionAsTyped ==
    \A i \in IDs :
        Slash(i) /\ status[i] = StatusOK /\ NamesSection(requests[i].text) =>
            /\ FetchThenDeliver(i)
            /\ \A k \in Events(i, "TopStories") :
                   /\ log[i][k].section = NamedSection(requests[i].text)
                   /\ log[i][k].topN = 3

\* C12, amended: the call is TopStories(section, 3) where section is s
\* lowercased with its surrounding spaces trimmed ("home" when nothing is
\* left); the rest as stated.
C12_FetchWithNormalisedSection ==
    \A i \in IDs :
        Slash(i) /\ status[i] = StatusOK /\ NamesSection(requests[i].text) =>
            /\ FetchThenDeliver(i)
            /\ \A k \in Events(i, "TopStories") :
                   /\ log[i][k].section = Normalised(NamedSection(requests[i].text))
                   /\ log[i][k].topN = 3

C12_Witness ==
    \E i \in IDs :
        /\ Slash(i) /\ status[i] = StatusOK /\ NamesSection(requests[i].text)
        /\ TopRequestDone(i)
        /\ log[i][3].section = Arts

\* request i is an accepted callback with selected value v, request j an
\* accepted slash command with text "stories " followed by v
Paired(i, j) ==
    /\ Help(i) /\ status[i] = StatusOK
    /\ Slash(j) /\ status[j] = StatusOK
    /\ requests[j].text = Stories \o <<" ">> \o requests[i].actions[1]

\* what a message shows, apart from where it goes
Content(m) == [blocks |-> m.blocks, text |-> m.text, responseType |-> m.responseType]

\* both goroutines take the top-stories path, call TopStories with the same
\* arguments, and for the same answer post the same content, each to its own
\* response URL
SamePath(i, j) ==
    /\ tasks[i].pc = "done" => Fetched(i)
    /\ tasks[j].pc = "done" => Fetched(j)
    /\ \A k \in Events(i, "TopStories") : \A l \in Events(j, "TopStories") :
           /\ log[i][k].section = log[j][l].section
           /\ log[i][k].topN = log[j][l].topN
    /\ TopRequestDone(i) /\ TopRequestDone(j) /\ tasks[i].result = tasks[j].result
           => /\ Content(tasks[i].posted) = Content(tasks[j].posted)
              /\ tasks[i].posted.responseType = "ephemeral"
              /\ tasks[i].posted.responseURL = requests[i].responseURL
              /\ tasks[j].posted.responseURL = requests[j].responseURL

OptionPairs(block) ==
    [k \in 1..Len(block.Accessory.Options) |->
        <<block.Accessory.Options[k].Text.Text, block.Accessory.Options[k].Value>>]

(***************************************************************************)
(* C14.  An accepted slash command with empty text gets the help message:  *)
(* header, divider, then one select block with exactly the options         *)
(* General/home, Arts/arts, Politics/politics in that order, posted        *)
(* ephemerally to the request's response URL, with no TopStories call.     *)
(***************************************************************************)
C14_EmptyTextHelp ==
    \A i \in IDs :
        Slash(i) /\ status[i] = StatusOK /\ requests[i].text = <<>> =>
            /\ ~Fetched(i)
            /\ tasks[i].pc = "done" => Posted(i) # {}
            /\ \A m \in Posted(i) :
                   /\ m.responseURL = requests[i].responseURL
                   /\ m.responseType = "ephemeral"
                   /\ Len(m.blocks) = 3
                   /\ m.blocks[1].Type = "header"
                   /\ m.blocks[1].Text.Text = "How to use"
                   /\ m.blocks[2].Type = "divider"
                   /\ m.blocks[3].Accessory.Type = "static_select"
                   /\ OptionPairs(m.blocks[3]) =
                          << <<"General", <<"h", "o", "m", "e">> >>,
                             <<"Arts", <<"a", "r", "t", "s">> >>,
                             <<"Politics", <<"p", "o", "l", "i", "t", "i", "c", "s">> >> >>

C14_Witness ==
    \E i \in IDs :
        /\ Slash(i) /\ status[i] = StatusOK /\ requests[i].text = <<>>
        /\ tasks[i].pc = "done"
        /\ Len(tasks[i].posted.blocks) = 3

\* the section request i asks for, from the fields of request i alone
OwnSection(i) ==
    IF Slash(i)
    THEN TopRequestSection(processCommand(ToLower(requests[i].text)).params)
    ELSE TopRequestSection(requests[i].actions[1])

\* the message the task of request i posts, from request i and the task's
\* own fetch result alone
OwnMessage(i) ==
    IF Fetched(i)
    THEN TopRequestMessage(requests[i].channelID, requests[i].responseURL,
                           tasks[i].result)
    ELSE HelpRequestMessage(requests[i].channelID, requests[i].responseURL)

\* the handler request i asks for, from the fields of request i alone
OwnRoute(i) ==
    IF Slash(i) THEN processCommand(ToLower(requests[i].text)).route
    ELSE "handleTopRequest"

\* the calls the goroutine of request i has made so far, in order
GoroutineCalls(i) == SelectSeq(log[i], LAMBDA e : e.by = "goroutine")

\* the calls that request i, the goroutine's position and the goroutine's
\* own fetch result determine
OwnCalls(i) ==
    LET fetch == [ev |-> "TopStories", by |-> "goroutine",
                  section |-> OwnSection(i), topN |-> TopN]
        post  == [ev |-> "PostMessage", by |-> "goroutine", msg |-> OwnMessage(i)]
    IN  IF tasks[i].pc = "fetched" THEN <<fetch>>
        ELSE IF tasks[i].pc = "done"
             THEN IF OwnRoute(i) = "handleTopRequest" THEN <<fetch, post>>
                  ELSE <<post>>
        ELSE <<>>

(***************************************************************************)
(* C15.  Under every interleaving of the goroutines, each delivery goes to *)
(* the response URL of the request that started the goroutine, its content *)
(* comes from that request's own section and that goroutine's own fetch    *)
(* result, and no goroutine reads or writes what belongs to another: what  *)
(* a goroutine holds and every call it has made are determined by its own  *)
(* request, its own position and its own fetch result.                     *)
(***************************************************************************)
C15_TasksIsolated ==
    \A i \in IDs :
        /\ Spawned(i) =>
               /\ tasks[i].channelID = requests[i].channelID
               /\ tasks[i].responseURL = requests[i].responseURL
               /\ tasks[i].params = (IF Slash(i) THEN ToLower(requests[i].text)
                                     ELSE requests[i].actions[1])
        /\ GoroutineCalls(i) = OwnCalls(i)
        /\ \A m \in Posted(i) : m.responseURL = requests[i].responseURL
        /\ tasks[i].pc = "done" => tasks[i].posted = OwnMessage(i)

\* two goroutines in flight at once, the later one done first, with
\* different fetch results
C15_Witness ==
    \E i, j \in IDs :
        /\ i < j
        /\ tasks[i].pc = "fetched"
        /\ TopRequestDone(j)
        /\ tasks[i].result # tasks[j].result
        /\ tasks[j].posted.responseURL = requests[j].responseURL
        /\ requests[i].responseURL # requests[j].responseURL

\* the WriteHeader calls and the go statements of the handler of request i
Written(i) == {log[i][k].status : k \in Events(i, "WriteHeader")}

(***************************************************************************)
(* C16.  Each handler invocation writes exactly one status code, one of    *)
(* 200, 400, 401, 500, and starts a goroutine if and only if that status   *)
(* is 200, and then exactly one; a request rejected before the             *)
(* acknowledgment produces no message.                                     *)
(***************************************************************************)
C16_OneStatusOneTask ==
    \A i \in IDs :
        /\ Cardinality(Events(i, "WriteHeader")) = 1
        /\ Written(i) = {status[i]}
        /\ status[i] \in {StatusOK, StatusBadRequest, StatusUnauthorized,
                          StatusInternalServerError}
        /\ Cardinality(Events(i, "go")) = (IF status[i] = StatusOK THEN 1 ELSE 0)
        /\ Spawned(i) <=> status[i] = StatusOK
        /\ status[i] # StatusOK => Outbound(i) = {}

C16_Witness ==
    \E i, j \in IDs :
        /\ status[i] = StatusOK /\ tasks[i].pc = "done"
        /\ Cardinality(Events(i, "go")) = 1
        /\ status[j] = StatusUnauthorized
        /\ Len(log[j]) = 1

(***************************************************************************)
(* C17.  Once started, every goroutine runs to completion, that is, it     *)
(* reaches its delivery attempt; nothing cancels it, the graceful shutdown *)
(* on SIGINT or SIGTERM included: when the process has exited, every       *)
(* goroutine that was started has made its delivery attempt.               *)
(***************************************************************************)
C17_ShutdownCancelsNothing ==
    proc = "exited" => \A i \in IDs : Spawned(i) => tasks[i].pc = "done"

(***************************************************************************)
(* C18.  HandleHelpInteraction checks in the order payload, token, action  *)
(* count: a well-formed callback with a wrong token gets 401 whatever its  *)
(* action count, a payload that cannot be deserialized gets 400 whatever   *)
(* its token, and the action count is only looked at when the token is     *)
(* the secret.                                                             *)
(***************************************************************************)
C18_HelpCheckOrder ==
    \A i \in IDs :
        Help(i) =>
            /\ ~requests[i].wellFormed => status[i] = StatusBadRequest
            /\ requests[i].wellFormed /\ requests[i].token # slackVerificationToken
                   => status[i] = StatusUnauthorized
            /\ requests[i].wellFormed /\ status[i] = StatusBadRequest
                   => /\ requests[i].token = slackVerificationToken
                      /\ Len(requests[i].actions) # 1
            /\ status[i] = StatusOK
                   => /\ requests[i].wellFormed
                      /\ requests[i].token = slackVerificationToken
                      /\ Len(requests[i].actions) = 1

C18_Witness ==
    \E i, j \in IDs :
        /\ Help(i) /\ requests[i].wellFormed
        /\ requests[i].token # slackVerificationToken
        /\ Len(requests[i].actions) = 2
        /\ status[i] = StatusUnauthorized
        /\ Help(j) /\ ~requests[j].wellFormed
        /\ requests[j].token = slackVerificationToken
        /\ status[j] = StatusBadRequest

====
